---- MODULE Spec2Model ----
(***************************************************************************)
(* Model of alchemlyb.estimators.bar_.BAR: the estimator object, one call  *)
(* of fit() at a time, and the pairwise solver pymbar.BAR as an external   *)
(* collaborator whose calls are logged and whose answers are free.         *)
(*                                                                         *)
(* Positions are 0-based as in the source: a Python list or array is a     *)
(* TLA+ sequence read through At(s, i) == s[i + 1], a matrix is a function *)
(* [0..n-1 -> [0..n-1 -> value]].  Energies and solver answers are         *)
(* integers (exact arithmetic; floating-point rounding is not modelled).   *)
(* np.sqrt(v) is the exact surd of v: a nonnegative real is determined by  *)
(* its square, so it is represented by its radicand.                       *)
(***************************************************************************)
EXTENDS Integers, Sequences, FiniteSets

\* ------------------------------------------------------------- bounds
\* Largest number of columns (states) of an Energy Table.
MaxStates == 3
\* Largest number of samples drawn from one state.
MaxSamples == 2

\* ------------------------------------------------------------- inputs
\* Lambda labels that may name a column; label 0 only ever tags samples.
StateIds == 1..MaxStates
Origins == 0..MaxStates

RECURSIVE Run(_, _)
\* <<a, a+1, ..., b>> when a <= b, <<a, a-1, ..., b>> when a > b.
Run(a, b) ==
    IF a = b THEN <<a>>
    ELSE <<a>> \o Run(IF a < b THEN a + 1 ELSE a - 1, b)

\* Column label lists of the Energy Tables tried: every contiguous chain of
\* lambda labels, ascending or descending.
ColumnLists == { Run(a, b) : a \in StateIds, b \in StateIds }

\* Number of samples of origin state o, when o has any.
SampleCount(o) == (o % MaxSamples) + 1

\* Reduced potential of sample (o, t) evaluated at the state labelled c.
Potential(o, t, c) == ((o + 1) * c * c + t * (c + o)) % 7

Row(o, t, cols) ==
    [time |-> t, origin |-> o,
     u |-> [p \in 1..Len(cols) |-> Potential(o, t, cols[p])]]

RECURSIVE RowsAt(_, _, _, _)
\* The rows of time t, origins o, o-1, ..., 0.
RowsAt(t, o, present, cols) ==
    IF o < 0 THEN <<>>
    ELSE (IF o \in present /\ t <= SampleCount(o)
          THEN <<Row(o, t, cols)>> ELSE <<>>)
         \o RowsAt(t, o - 1, present, cols)

RECURSIVE RowsFrom(_, _, _)
\* The rows in file order: by time, latest first, then by origin, highest
\* first (not the order fit() works in).
RowsFrom(t, present, cols) ==
    IF t < 1 THEN <<>>
    ELSE RowsAt(t, MaxStates, present, cols) \o RowsFrom(t - 1, present, cols)

\* The Energy Tables handed to fit(): columns cols, samples from the origin
\* states in present.
Table(cols, present) ==
    [columns |-> cols, rows |-> RowsFrom(MaxSamples + 1, present, cols)]

Labels(cols) == { cols[p] : p \in 1..Len(cols) }

\* Which origin states have samples, for columns cols: every column's state
\* or all but one of them, with or without samples from state 0, which is
\* never a column.
Presents(cols) ==
    { (Labels(cols) \ miss) \cup extra :
        miss \in {{}} \cup { {c} : c \in Labels(cols) }, extra \in {{}, {0}} }

\* The tables tried; each holds at least one sample.
Tables ==
    UNION { { Table(cols, present) : present \in Presents(cols) \ {{}} } :
            cols \in ColumnLists }

\* Constructor arguments tried.
Configs ==
    { [maximum_iterations |-> 10000, relative_tolerance |-> "1.0e-7",
       initial_f_k |-> "None", method |-> "hybr", verbose |-> FALSE],
      [maximum_iterations |-> 500, relative_tolerance |-> "1.0e-9",
       initial_f_k |-> "None", method |-> "BFGS", verbose |-> TRUE] }

\* Answers of the pairwise solver tried: df, and the standard error ddf >= 0.
SolverAnswers ==
    { [df |-> -1, ddf |-> 2], [df |-> 2, ddf |-> 0], [df |-> 3, ddf |-> 1] }

\* ------------------------------------------------------------ helpers
\* An attribute not set yet.
Absent == [absent |-> TRUE]

\* No exception.
NoError == "none"

\* s[i] of a Python sequence.
At(s, i) == s[i + 1]

Min(a, b) == IF a < b THEN a ELSE b

RECURSIVE SumSeq(_)
SumSeq(s) == IF s = <<>> THEN 0 ELSE Head(s) + SumSeq(Tail(s))

\* s[lo:hi].sum(), a Python slice with 0 <= lo: clipped to the array.
SliceSum(s, lo, hi) ==
    LET h == Min(hi, Len(s))
    IN IF lo >= h THEN 0 ELSE SumSeq(SubSeq(s, lo + 1, h))

\* (origin, time) order of two rows.
RowLess(r, s) ==
    \/ r.origin < s.origin
    \/ r.origin = s.origin /\ r.time < s.time

RECURSIVE Insert(_, _)
Insert(r, sorted) ==
    IF sorted = <<>> THEN <<r>>
    ELSE IF RowLess(r, Head(sorted)) THEN <<r>> \o sorted
    ELSE <<Head(sorted)>> \o Insert(r, Tail(sorted))

RECURSIVE SortRows(_)
SortRows(rows) ==
    IF rows = <<>> THEN <<>> ELSE Insert(Head(rows), SortRows(Tail(rows)))

\* u_nk.sort_index(level=u_nk.index.names[1:]): rows by origin state, then
\* by the remaining level (time).
SortIndex(t) == [columns |-> t.columns, rows |-> SortRows(t.rows)]

\* u_nk.groupby(level=...): one group per origin state that has rows.
GroupBy(t) ==
    LET keys == { t.rows[n].origin : n \in 1..Len(t.rows) }
    IN [key \in keys |-> SelectSeq(t.rows, LAMBDA r : r.origin = key)]

\* [(len(groups.get_group(i)) if i in groups.groups else 0) for i in columns]
GroupSizes(t, g) ==
    [p \in 1..Len(t.columns) |->
        IF t.columns[p] \in DOMAIN g THEN Len(g[t.columns[p]]) ELSE 0]

\* uk.iloc[:, k+1] - uk.iloc[:, k]
ForwardWork(uk, kk) ==
    [n \in 1..Len(uk) |-> At(uk[n].u, kk + 1) - At(uk[n].u, kk)]

\* ReverseWork with the operands the other way round, as in w_F.
ReverseWorkForwardSign(uk1, kk) ==
    [n \in 1..Len(uk1) |-> At(uk1[n].u, kk + 1) - At(uk1[n].u, kk)]

\* uk1.iloc[:, k] - uk1.iloc[:, k+1]
ReverseWork(uk1, kk) ==
    [n \in 1..Len(uk1) |-> At(uk1[n].u, kk) - At(uk1[n].u, kk + 1)]

\* The keyword arguments of the call BAR_(w_F, w_R, ...).
SolverKwargs(cfg) ==
    [maximum_iterations |-> cfg.maximum_iterations,
     relative_tolerance |-> cfg.relative_tolerance,
     verbose |-> cfg.verbose]

\* ddf**2
Squared(x) == x * x

\* ----------------------------------------------------------- matrices
Zeros(n) == [i \in 0..(n - 1) |-> [j \in 0..(n - 1) |-> 0]]

\* np.diagflat(v, k=d): square of side len(v) + d, v on the d-th superdiagonal.
DiagFlat(v, d) ==
    LET n == Len(v) + d
    IN [i \in 0..(n - 1) |-> [j \in 0..(n - 1) |->
           IF j = i + d /\ i < Len(v) THEN At(v, i) ELSE 0]]

MatAdd(A, B) == [i \in DOMAIN A |-> [j \in DOMAIN A[i] |-> A[i][j] + B[i][j]]]
MatSub(A, B) == [i \in DOMAIN A |-> [j \in DOMAIN A[i] |-> A[i][j] - B[i][j]]]
Transpose(A) == [i \in DOMAIN A |-> [j \in DOMAIN A |-> A[j][i]]]

\* np.sqrt of a number: the principal root, nan below zero.
NaN == [nan |-> TRUE]
Sqrt(v) == IF v >= 0 THEN [sqrt_of |-> v] ELSE NaN
MatSqrt(A) == [i \in DOMAIN A |-> [j \in DOMAIN A[i] |-> Sqrt(A[i][j])]]

\* SpanSums with the slice ending one early: deltas[i + 1:i + j].
SpanSumsShort(vals, j) ==
    [n \in 1..(Len(vals) - j) |->
        LET i == n - 1
        IN At(vals, i) + SliceSum(vals, i + 1, i + j)]

\* out of one pass of the loop over j: the sums of j + 1 consecutive values.
SpanSums(vals, j) ==
    [n \in 1..(Len(vals) - j) |->
        LET i == n - 1
        IN At(vals, i) + SliceSum(vals, i + 1, i + j + 1)]

RECURSIVE FillFrom(_, _, _)
\* The loop "for j in range(len(deltas))" from pass j on, M the matrix so far.
FillFrom(vals, j, M) ==
    IF j >= Len(vals) THEN M
    ELSE FillFrom(vals, j + 1, MatAdd(M, DiagFlat(SpanSums(vals, j), j + 1)))

\* adelta (or ad_delta) after the loop.
Accumulate(vals) == FillFrom(vals, 0, Zeros(Len(vals) + 1))

\* DeltaFValues with the transpose added: adelta + adelta.T.
DeltaFValuesAdded(adelta) == MatAdd(adelta, Transpose(adelta))

\* adelta - adelta.T
DeltaFValues(adelta) == MatSub(adelta, Transpose(adelta))

\* DDeltaFValues on a matrix whose two triangles both hold the variances:
\* V + V^T then counts each twice.
DDeltaFValuesBothTriangles(ad_delta) ==
    LET full == MatAdd(ad_delta, Transpose(ad_delta))
    IN MatSqrt(MatAdd(full, Transpose(full)))

\* DDeltaFValues without the transpose: np.sqrt(ad_delta).
DDeltaFValuesUpperOnly(ad_delta) == MatSqrt(ad_delta)

\* np.sqrt(ad_delta + ad_delta.T)
DDeltaFValues(ad_delta) == MatSqrt(MatAdd(ad_delta, Transpose(ad_delta)))

\* pd.DataFrame(values, columns=labels, index=labels)
DataFrame(values, labels) == [values |-> values, index |-> labels, columns |-> labels]

\* ------------------------------------------------------------- state
VARIABLES
    config,      \* self.maximum_iterations, .relative_tolerance, .initial_f_k, .method, .verbose
    states_,     \* self.states_, Absent before the first fit
    delta_f_,    \* self.delta_f_, Absent before the first successful fit
    d_delta_f_,  \* self.d_delta_f_, Absent before the first successful fit
    pc,          \* "idle" | "loop" | "done" | "raised": where the call of fit() is
    arg,         \* the Energy Table the caller passed
    u_nk,        \* the local u_nk, sorted
    groups,      \* the local groups
    N_k,         \* the local N_k
    k,           \* the loop variable k
    deltas,      \* the local deltas
    d_deltas,    \* the local d_deltas
    calls,       \* the solver's calls during this fit(), in order
    error        \* the exception fit() ended in, NoError otherwise

vars == <<config, states_, delta_f_, d_delta_f_, pc, arg, u_nk, groups, N_k, k,
          deltas, d_deltas, calls, error>>

self == <<config, states_, delta_f_, d_delta_f_>>
locals == <<arg, u_nk, groups, N_k, k, deltas, d_deltas>>

NoTable == [columns |-> <<>>, rows |-> <<>>]

\* self.method = (dict(method=method), )
Construct(a) ==
    [maximum_iterations |-> a.maximum_iterations,
     relative_tolerance |-> a.relative_tolerance,
     initial_f_k |-> a.initial_f_k,
     method |-> << [method |-> a.method] >>,
     verbose |-> a.verbose]

Init ==
    /\ config \in { Construct(a) : a \in Configs }
    /\ states_ = Absent
    /\ delta_f_ = Absent
    /\ d_delta_f_ = Absent
    /\ pc = "idle"
    /\ arg = NoTable
    /\ u_nk = NoTable
    /\ groups = <<>>
    /\ N_k = <<>>
    /\ k = 0
    /\ deltas = <<>>
    /\ d_deltas = <<>>
    /\ calls = <<>>
    /\ error = NoError

\* fit(), lines 76-88: up to the first test of the loop.
FitEnter(t) ==
    /\ pc = "idle"
    /\ LET sorted == SortIndex(t)
           g == GroupBy(sorted)
       IN /\ arg' = t
          /\ u_nk' = sorted
          /\ states_' = sorted.columns
          /\ groups' = g
          /\ N_k' = GroupSizes(sorted, g)
    /\ k' = 0
    /\ deltas' = <<>>
    /\ d_deltas' = <<>>
    /\ calls' = <<>>
    /\ error' = NoError
    /\ pc' = "loop"
    /\ UNCHANGED <<config, delta_f_, d_delta_f_>>

InLoop == pc = "loop" /\ k < Len(N_k) - 1

\* groups.get_group(key) raises KeyError for a key with no rows.
HasGroup(key) == key \in DOMAIN groups

\* One pass of the loop whose get_group raises: lines 91 or 96.
PairKeyError ==
    /\ InLoop
    /\ ~(HasGroup(At(states_, k)) /\ HasGroup(At(states_, k + 1)))
    /\ error' = "KeyError"
    /\ pc' = "raised"
    /\ UNCHANGED <<self, locals, calls>>

\* The solver's outcome when it raises instead of answering.
Raises == [raises |-> TRUE]

\* The call of lines 101-104, as the solver sees it.
SolverCall(result) ==
    [w_F |-> ForwardWork(groups[At(states_, k)], k),
     w_R |-> ReverseWork(groups[At(states_, k + 1)], k),
     kwargs |-> SolverKwargs(config),
     result |-> result]

\* One pass of the loop, lines 91-107, the solver answering (df, ddf).
PairSolve(ans) ==
    LET df == ans.df
        ddf == ans.ddf
    IN
    /\ InLoop
    /\ HasGroup(At(states_, k)) /\ HasGroup(At(states_, k + 1))
    /\ calls' = Append(calls, SolverCall(ans))
    /\ deltas' = Append(deltas, df)
    /\ d_deltas' = Append(d_deltas, Squared(ddf))
    /\ k' = k + 1
    /\ UNCHANGED <<self, pc, arg, u_nk, groups, N_k, error>>

\* PairSolverRaises with the exception caught and the pass tried again.
PairSolverRaisesRetried ==
    /\ InLoop
    /\ HasGroup(At(states_, k)) /\ HasGroup(At(states_, k + 1))
    /\ calls' = Append(calls, SolverCall(Raises))
    /\ UNCHANGED <<self, locals, pc, error>>

\* One pass of the loop whose solver call raises: the exception leaves fit().
PairSolverRaises ==
    /\ InLoop
    /\ HasGroup(At(states_, k)) /\ HasGroup(At(states_, k + 1))
    /\ calls' = Append(calls, SolverCall(Raises))
    /\ error' = "SolverError"
    /\ pc' = "raised"
    /\ UNCHANGED <<self, locals>>

\* Lines 109-133, after the loop: the two matrices.
Assemble ==
    /\ pc = "loop"
    /\ ~(k < Len(N_k) - 1)
    /\ delta_f_' = DataFrame(DeltaFValues(Accumulate(deltas)), states_)
    /\ d_delta_f_' = DataFrame(DDeltaFValues(Accumulate(d_deltas)), states_)
    /\ pc' = "done"
    /\ UNCHANGED <<config, states_, locals, calls, error>>

\* fit() has returned or raised: its locals are gone, the caller goes on.
Leave ==
    /\ pc \in {"done", "raised"}
    /\ pc' = "idle"
    /\ arg' = NoTable
    /\ u_nk' = NoTable
    /\ groups' = <<>>
    /\ N_k' = <<>>
    /\ k' = 0
    /\ deltas' = <<>>
    /\ d_deltas' = <<>>
    /\ calls' = <<>>
    /\ error' = NoError
    /\ UNCHANGED self

Next ==
    \/ \E t \in Tables : FitEnter(t)
    \/ PairKeyError
    \/ \E ans \in SolverAnswers : PairSolve(ans)
    \/ PairSolverRaises
    \/ Assemble
    \/ Leave

Spec == Init /\ [][Next]_vars

\* ------------------------------------------------------------- claims
\* The number of states of the fit in progress or just ended.
K == Len(states_)
Chain == 0..(K - 1)

\* The fit ended normally and its results are still beside its locals.
FitDone == pc = "done"

\* What the solver answered for chain position m.
Answer(m) == At(calls, m).result

RECURSIVE SolverDfSum(_, _)
\* df_i + ... + df_{j-1}, from the solver's answers.
SolverDfSum(i, j) == IF i >= j THEN 0 ELSE Answer(i).df + SolverDfSum(i + 1, j)

RECURSIVE AdjacentDfSum(_, _)
\* delta_f_[i,i+1] + ... + delta_f_[j-1,j]
AdjacentDfSum(i, j) ==
    IF i >= j THEN 0 ELSE delta_f_.values[i][i + 1] + AdjacentDfSum(i + 1, j)

RECURSIVE SolverVarSum(_, _)
\* ddf_i**2 + ... + ddf_{j-1}**2, from the solver's answers.
SolverVarSum(i, j) ==
    IF i >= j THEN 0 ELSE Answer(i).ddf * Answer(i).ddf + SolverVarSum(i + 1, j)

\* x is a number (not nan) and x**2 = v.
SquareIs(x, v) == x # NaN /\ x.sqrt_of = v

RECURSIVE AdjacentVarSumIs(_, _, _)
\* d_delta_f_[i,i+1]**2 + ... + d_delta_f_[j-1,j]**2 = v
AdjacentVarSumIs(i, j, v) ==
    IF i >= j THEN v = 0
    ELSE /\ d_delta_f_.values[i][i + 1] # NaN
         /\ AdjacentVarSumIs(i + 1, j, v - d_delta_f_.values[i][i + 1].sqrt_of)

\* x >= 0 for a value np.sqrt produced: a principal root, not nan.
NonNegative(x) == x # NaN /\ x.sqrt_of >= 0

\* C1: after a successful fit over K states, for all chain positions i < j
\* delta_f_[i,j] is the sum of the solver's answers df_i..df_{j-1}, which is
\* also the sum of the adjacent entries delta_f_[i,i+1]..delta_f_[j-1,j]; in
\* particular delta_f_[k,k+1] = df_k.
C1_ChainSums ==
    FitDone =>
        /\ Len(calls) = K - 1
        /\ DOMAIN delta_f_.values = Chain
        /\ \A kk \in 0..(K - 2) : delta_f_.values[kk][kk + 1] = Answer(kk).df
        /\ \A i \in Chain, j \in Chain :
              i < j => /\ delta_f_.values[i][j] = SolverDfSum(i, j)
                       /\ delta_f_.values[i][j] = AdjacentDfSum(i, j)

\* A fit over at least three states whose first two answers differ.
C1_Witness ==
    /\ FitDone
    /\ K >= 3
    /\ Answer(0).df = -1
    /\ Answer(1).df = 2
    /\ delta_f_.values[0][2] = 1

\* C2: after a successful fit delta_f_ is antisymmetric with a zero diagonal.
C2_Antisymmetric ==
    FitDone =>
        /\ DOMAIN delta_f_.values = Chain
        /\ \A i \in Chain :
              /\ DOMAIN delta_f_.values[i] = Chain
              /\ delta_f_.values[i][i] = 0
              /\ \A j \in Chain : delta_f_.values[i][j] = -delta_f_.values[j][i]

\* A fit with a nonzero entry two steps off the diagonal.
C2_Witness ==
    /\ FitDone
    /\ K >= 3
    /\ delta_f_.values[0][2] = 5
    /\ delta_f_.values[2][0] = -5

\* C3: after a successful fit, for all i < j, d_delta_f_[i,j]**2 is the sum
\* of the squared standard errors ddf_i..ddf_{j-1}, each counted once, which
\* is also the sum of the squared adjacent entries of d_delta_f_.
C3_VarianceAdditive ==
    FitDone =>
        /\ DOMAIN d_delta_f_.values = Chain
        /\ \A i \in Chain, j \in Chain :
              i < j => /\ SquareIs(d_delta_f_.values[i][j], SolverVarSum(i, j))
                       /\ AdjacentVarSumIs(i, j, SolverVarSum(i, j))

\* A fit whose first two standard errors are 2 and 1: variance 5 over both.
C3_Witness ==
    /\ FitDone
    /\ K >= 3
    /\ Answer(0).ddf = 2
    /\ Answer(1).ddf = 1
    /\ d_delta_f_.values[0][2] = Sqrt(5)

\* C4: after a successful fit d_delta_f_ is symmetric and nonnegative with a
\* zero diagonal.
C4_SymmetricNonNegative ==
    FitDone =>
        /\ DOMAIN d_delta_f_.values = Chain
        /\ \A i \in Chain :
              /\ DOMAIN d_delta_f_.values[i] = Chain
              /\ d_delta_f_.values[i][i] = Sqrt(0)
              /\ \A j \in Chain :
                    /\ d_delta_f_.values[i][j] = d_delta_f_.values[j][i]
                    /\ NonNegative(d_delta_f_.values[i][j])

\* A fit with a nonzero uncertainty below the diagonal.
C4_Witness ==
    /\ FitDone
    /\ K >= 2
    /\ d_delta_f_.values[1][0] = Sqrt(4)
    /\ d_delta_f_.values[0][1] = Sqrt(4)

\* How often v occurs in the sequence s.
Count(s, v) == Cardinality({ n \in DOMAIN s : s[n] = v })

\* The rows of the table the caller passed whose origin is the state of
\* column position m (0-based) and whose potential at column position `to`
\* minus that at column position `from` is v.
SamplesWith(m, from, to, v) ==
    { n \in DOMAIN arg.rows :
        /\ arg.rows[n].origin = At(arg.columns, m)
        /\ At(arg.rows[n].u, to) - At(arg.rows[n].u, from) = v }

SamplesOf(m) == { n \in DOMAIN arg.rows : arg.rows[n].origin = At(arg.columns, m) }

WorkValues == -6..6

\* C5: the m-th solver call of a fit is the one for chain position m: its
\* w_F holds, for each sample whose origin is column-state m and for no other,
\* (potential at column m+1) - (potential at column m), and its w_R holds, for
\* each sample whose origin is column-state m+1 and for no other, (potential
\* at column m) - (potential at column m+1); a successful fit has made exactly
\* one call for every m in 0..K-2.
C5_WorkValues ==
    /\ \A m \in 0..(Len(calls) - 1) :
          /\ m <= Len(arg.columns) - 2
          /\ Len(At(calls, m).w_F) = Cardinality(SamplesOf(m))
          /\ Len(At(calls, m).w_R) = Cardinality(SamplesOf(m + 1))
          /\ \A v \in WorkValues :
                /\ Count(At(calls, m).w_F, v) = Cardinality(SamplesWith(m, m, m + 1, v))
                /\ Count(At(calls, m).w_R, v) = Cardinality(SamplesWith(m + 1, m + 1, m, v))
    /\ FitDone => Len(calls) = Len(arg.columns) - 1

\* A three-state fit whose first call got two different forward values and a
\* nonzero reverse value.
C5_Witness ==
    /\ FitDone
    /\ Len(calls) = 2
    /\ Len(At(calls, 0).w_F) = 2
    /\ At(calls, 0).w_F[1] # At(calls, 0).w_F[2]
    /\ Len(At(calls, 0).w_R) = 1
    /\ At(calls, 0).w_R[1] # 0
    /\ At(calls, 1).w_F[1] # 0

\* Some column of the table handed to fit names a state with no samples.
SomeStateEmpty ==
    \E p \in DOMAIN arg.columns :
        \A n \in DOMAIN arg.rows : arg.rows[n].origin # arg.columns[p]

\* The error of a state without samples: get_group's KeyError is taken for it.
InsufficientData(e) == e = "KeyError"

\* C6: a fit on a table one of whose column states has no samples ends in
\* the insufficient-data error, produces no matrices, and never hands the
\* solver an empty work sequence.
C6_EmptyStateRaises ==
    (pc \in {"done", "raised"} /\ SomeStateEmpty) =>
        /\ pc = "raised"
        /\ InsufficientData(error)
        /\ \A n \in DOMAIN calls : calls[n].w_F # <<>> /\ calls[n].w_R # <<>>

\* Some solver call of this fit raised.
Raised == \E n \in DOMAIN calls : calls[n].result = Raises

\* C7: once the solver has raised for position k, the fit makes no further
\* solver call (none for k again, none for a later position) and assigns no
\* matrix; the raising step itself ends the fit with the solver's error and
\* assigns none either; and a matrix is only ever assigned by a fit all of
\* whose K-1 solver calls answered.
C7_SolverErrorAborts ==
    [][ /\ Raised =>
            /\ delta_f_' = delta_f_
            /\ d_delta_f_' = d_delta_f_
            /\ calls' = calls \/ (calls' = <<>> /\ pc' = "idle")
        /\ (~Raised /\ Raised') =>
            /\ delta_f_' = delta_f_
            /\ d_delta_f_' = d_delta_f_
            /\ Len(calls') = Len(calls) + 1
            /\ pc' = "raised"
            /\ error' = "SolverError"
        /\ (delta_f_' # delta_f_ \/ d_delta_f_' # d_delta_f_) =>
            /\ ~Raised'
            /\ calls' = calls
            /\ Len(calls) = K - 1
      ]_vars

\* The solver raised for position 0 of a three-state chain, on an estimator
\* that holds the matrices of an earlier fit.
C7_Witness ==
    /\ pc = "raised"
    /\ error = "SolverError"
    /\ K = 3
    /\ Len(calls) = 1
    /\ Raised
    /\ delta_f_ # Absent

\* C8: every solver call receives the configured maximum_iterations,
\* relative_tolerance, method and verbose.
C8_SolverGetsConfig ==
    \A n \in DOMAIN calls :
        LET kw == calls[n].kwargs
        IN /\ kw.maximum_iterations = config.maximum_iterations
           /\ kw.relative_tolerance = config.relative_tolerance
           /\ kw.verbose = config.verbose
           /\ "method" \in DOMAIN kw
           /\ kw.method = config.method

\* The origin states that tag some sample of the table handed to fit.
OriginStates == { arg.rows[n].origin : n \in DOMAIN arg.rows }

\* C9: when the number of columns differs from the number of distinct origin
\* states, fit makes no solver call and produces no matrices.
C9_MisalignmentDetected ==
    (pc # "idle" /\ Cardinality(OriginStates) # Len(arg.columns)) =>
        /\ calls = <<>>
        /\ pc # "done"

\* C10: between fit calls, the matrices that are present are labelled by the
\* current states_.
C10_LabelsMatchStates ==
    pc = "idle" =>
        /\ delta_f_ # Absent =>
              delta_f_.index = states_ /\ delta_f_.columns = states_
        /\ d_delta_f_ # Absent =>
              d_delta_f_.index = states_ /\ d_delta_f_.columns = states_

====
